---- MODULE Spec2Model ----
(***************************************************************************)
(* Model of the Jira/Xray REST facade: the gin handlers of main.go, the    *)
(* configuration of config.go, the entity model of jira/models.go and the  *)
(* backend client (package jira, client.go).                               *)
(*                                                                         *)
(* Conventions                                                             *)
(*   - a JSON object is a function from the names that are present to      *)
(*     their values; decoding into a Go struct gives absent names the      *)
(*     zero value, encoding drops the names tagged omitempty whose value   *)
(*     is empty;                                                           *)
(*   - a Go slice is [nil, elems]: the nil slice and the empty non-nil     *)
(*     slice both have no elements but are different values;               *)
(*   - a Go error is the chain of its wrapped messages, <<>> is nil;       *)
(*   - a time.Time is an integer count of days, 0 is the zero time;        *)
(*   - a URL is the sequence of its pieces.                                *)
(***************************************************************************)
EXTENDS Integers, Sequences, FiniteSets, TLC

VARIABLES config, jiraClient, now, last, inflight

vars == <<config, jiraClient, now, last, inflight>>

(***************************************************************************)
(* Bounds                                                                  *)
(***************************************************************************)
\* number of days the clock may advance
MaxTick == 1
\* largest number of issues in one search response of the backend
MaxIssues == 2
\* number of requests the server handles at the same time
MaxInFlight == 2

\* the clock's reading at startup; the canned records reach 7 days back
StartTime == 8

(***************************************************************************)
(* Go values                                                               *)
(***************************************************************************)
ZeroTime == 0

NilSlice == [nil |-> TRUE, elems |-> <<>>]

Slice(s) == [nil |-> FALSE, elems |-> s]

NilMap == [nil |-> TRUE, entries |-> {}]

MapOf(es) == [nil |-> FALSE, entries |-> es]

NoError == <<>>

\* one error of a chain: its message, the HTTP status it reports (0 when
\* none) and the backend text it carries
Err(msg, code, detail) == <<[msg |-> msg, code |-> code, detail |-> detail]>>

\* fmt.Errorf("msg: %w", err)
Wrap(msg, err) == Err(msg, 0, <<>>) \o err

EmptyObject == [n \in {} |-> n]

\* the value of name n in JSON object o, zero when n is absent
Field(o, n, zero) == IF n \in DOMAIN o THEN o[n] ELSE zero

\* a JSON array (or an absent name) decoded into a slice
SliceField(o, n) == IF n \in DOMAIN o THEN Slice(o[n]) ELSE NilSlice

MapField(o, n) == IF n \in DOMAIN o THEN MapOf(o[n]) ELSE NilMap

\* the object o restricted to the names in keep
Restrict(o, keep) == [n \in (DOMAIN o) \cap keep |-> o[n]]

(***************************************************************************)
(* Configuration (config.go) and client construction                       *)
(***************************************************************************)
DemoUsername == "demo_user"

DemoToken == "demo_token_replace_with_actual"

DefaultPort == "8080"

\* pieces of a URL that url.Parse rejects (a control character)
CtlPieces == {"\n"}

\* the process environments the model starts from
Envs ==
    [JIRA_BASE_URL : {<<"https://jira.example.com", "/">>,
                      <<"https://jira.example.com", "\n">>},
     JIRA_USERNAME : {"", DemoUsername, "alice@example.com"},
     JIRA_API_TOKEN : {DemoToken, "s3cr3t"},
     JIRA_PROJECT_KEY : {"PROJ"},
     PORT : {""}]

getEnvOrDefault(env, key, defaultValue) ==
    IF env[key] # "" THEN env[key] ELSE defaultValue

\* LoadConfig: ok is FALSE when a required variable is missing (main exits)
LoadConfig(env) ==
    LET c == [JiraBaseURL    |-> env.JIRA_BASE_URL,
              JiraUsername   |-> getEnvOrDefault(env, "JIRA_USERNAME", ""),
              JiraAPIToken   |-> getEnvOrDefault(env, "JIRA_API_TOKEN", ""),
              JiraProjectKey |-> getEnvOrDefault(env, "JIRA_PROJECT_KEY", ""),
              Port           |-> getEnvOrDefault(env, "PORT", DefaultPort)]
    IN  [ok |-> /\ c.JiraBaseURL # <<>>
                /\ c.JiraUsername # ""
                /\ c.JiraAPIToken # ""
                /\ c.JiraProjectKey # "",
         config |-> c]

\* strings.TrimSuffix(baseURL, "/")
TrimSuffix(url, suffix) ==
    IF Len(url) > 0 /\ url[Len(url)] = suffix
    THEN SubSeq(url, 1, Len(url) - 1)
    ELSE url

NewClient(baseURL, username, apiToken, projectKey) ==
    [BaseURL    |-> TrimSuffix(baseURL, "/"),
     Username   |-> username,
     APIToken   |-> apiToken,
     ProjectKey |-> projectKey]

\* the check with both placeholders required instead of either
isDemoCredentials_And(c) ==
    c.Username = DemoUsername /\ c.APIToken = DemoToken

isDemoCredentials(c) ==
    c.Username = DemoUsername \/ c.APIToken = DemoToken

(***************************************************************************)
(* Entity model (jira/models.go)                                           *)
(***************************************************************************)
\* json.Unmarshal into a TestCase
DecodeTestCase(o) ==
    [ID           |-> Field(o, "id", ""),
     Key          |-> Field(o, "key", ""),
     Summary      |-> Field(o, "summary", ""),
     Description  |-> Field(o, "description", ""),
     Status       |-> Field(o, "status", ""),
     Priority     |-> Field(o, "priority", ""),
     Labels       |-> SliceField(o, "labels"),
     Components   |-> SliceField(o, "components"),
     TestType     |-> Field(o, "testType", ""),
     CreatedDate  |-> Field(o, "createdDate", ZeroTime),
     UpdatedDate  |-> Field(o, "updatedDate", ZeroTime),
     Reporter     |-> Field(o, "reporter", ""),
     Assignee     |-> Field(o, "assignee", ""),
     CustomFields |-> MapField(o, "customFields")]

\* json.Unmarshal into a TestResult
DecodeTestResult(o) ==
    [TestCaseKey   |-> Field(o, "testCaseKey", ""),
     Status        |-> Field(o, "status", ""),
     Comment       |-> Field(o, "comment", ""),
     ExecutionTime |-> Field(o, "executionTime", 0),
     ExecutedBy    |-> Field(o, "executedBy", ""),
     ExecutedOn    |-> Field(o, "executedOn", ZeroTime),
     Defects       |-> SliceField(o, "defects"),
     Evidence      |-> SliceField(o, "evidence")]

\* json.Unmarshal into a TestExecution
DecodeTestExecution(o) ==
    [ID              |-> Field(o, "id", ""),
     Key             |-> Field(o, "key", ""),
     Summary         |-> Field(o, "summary", ""),
     Description     |-> Field(o, "description", ""),
     Status          |-> Field(o, "status", ""),
     TestCases       |-> SliceField(o, "testCases"),
     ExecutionStatus |-> Field(o, "executionStatus", ""),
     StartDate       |-> Field(o, "startDate", ZeroTime),
     EndDate         |-> Field(o, "endDate", ZeroTime),
     ExecutedBy      |-> Field(o, "executedBy", ""),
     Environment     |-> Field(o, "environment", ""),
     TestResults     |->
        IF "testResults" \in DOMAIN o
        THEN Slice([i \in 1..Len(o["testResults"]) |->
                        DecodeTestResult(o["testResults"][i])])
        ELSE NilSlice,
     CustomFields    |-> MapField(o, "customFields")]

\* the zero values of the nested structs of IssueFields
ZeroIssueType == [ID |-> "", Name |-> ""]

ZeroProject == [Key |-> "", Name |-> ""]

ZeroPriority == [ID |-> "", Name |-> ""]

ZeroStatus == [ID |-> "", Name |-> ""]

ZeroUser == [AccountID |-> "", EmailAddress |-> "", DisplayName |-> ""]

DecodeIssueType(o) == [ID |-> Field(o, "id", ""), Name |-> Field(o, "name", "")]

DecodeProject(o) == [Key |-> Field(o, "key", ""), Name |-> Field(o, "name", "")]

DecodePriority(o) == [ID |-> Field(o, "id", ""), Name |-> Field(o, "name", "")]

DecodeStatus(o) == [ID |-> Field(o, "id", ""), Name |-> Field(o, "name", "")]

DecodeUser(o) ==
    [AccountID    |-> Field(o, "accountId", ""),
     EmailAddress |-> Field(o, "emailAddress", ""),
     DisplayName  |-> Field(o, "displayName", "")]

\* json.Unmarshal into an IssueFields
DecodeIssueFields(o) ==
    [Summary     |-> Field(o, "summary", ""),
     Description |-> Field(o, "description", ""),
     IssueType   |-> IF "issuetype" \in DOMAIN o
                     THEN DecodeIssueType(o["issuetype"]) ELSE ZeroIssueType,
     Project     |-> IF "project" \in DOMAIN o
                     THEN DecodeProject(o["project"]) ELSE ZeroProject,
     Priority    |-> IF "priority" \in DOMAIN o
                     THEN DecodePriority(o["priority"]) ELSE ZeroPriority,
     Status      |-> IF "status" \in DOMAIN o
                     THEN DecodeStatus(o["status"]) ELSE ZeroStatus,
     Reporter    |-> IF "reporter" \in DOMAIN o
                     THEN DecodeUser(o["reporter"]) ELSE ZeroUser,
     Assignee    |-> IF "assignee" \in DOMAIN o
                     THEN DecodeUser(o["assignee"]) ELSE ZeroUser,
     Labels      |-> SliceField(o, "labels"),
     Components  |-> SliceField(o, "components")]

ZeroIssueFields == DecodeIssueFields(EmptyObject)

\* json.Unmarshal into a JiraIssue
DecodeJiraIssue(o) ==
    [ID     |-> Field(o, "id", ""),
     Key    |-> Field(o, "key", ""),
     Fields |-> IF "fields" \in DOMAIN o
                THEN DecodeIssueFields(o["fields"]) ELSE ZeroIssueFields]

\* json.Unmarshal into a JiraResponse
DecodeJiraResponse(o) ==
    [Issues     |->
        IF "issues" \in DOMAIN o
        THEN Slice([i \in 1..Len(o["issues"]) |-> DecodeJiraIssue(o["issues"][i])])
        ELSE NilSlice,
     StartAt    |-> Field(o, "startAt", 0),
     MaxResults |-> Field(o, "maxResults", 0),
     Total      |-> Field(o, "total", 0)]

\* json.Unmarshal into a CreateIssueResponse
DecodeCreateIssueResponse(o) ==
    [ID   |-> Field(o, "id", ""),
     Key  |-> Field(o, "key", ""),
     Self |-> Field(o, "self", "")]

\* json.Unmarshal into an ErrorResponse
DecodeErrorResponse(o) ==
    [ErrorMessages |-> SliceField(o, "errorMessages"),
     Errors        |-> MapField(o, "errors")]

\* the names json.Marshal drops from an IssueFields: the omitempty names
\* whose value is empty (omitempty never drops a struct)
OmittedIssueFields(f) ==
    (IF f.Description = "" THEN {"description"} ELSE {})
    \cup (IF Len(f.Labels.elems) = 0 THEN {"labels"} ELSE {})
    \cup (IF Len(f.Components.elems) = 0 THEN {"components"} ELSE {})

EncodeNamed(x) ==
    LET full == [id |-> x.ID, name |-> x.Name]
    IN  Restrict(full, {"id", "name"} \ (IF x.ID = "" THEN {"id"} ELSE {}))

EncodeProject(x) ==
    LET full == [key |-> x.Key, name |-> x.Name]
    IN  Restrict(full, {"key", "name"} \ (IF x.Name = "" THEN {"name"} ELSE {}))

EncodeUser(x) ==
    LET full == [accountId |-> x.AccountID, emailAddress |-> x.EmailAddress,
                 displayName |-> x.DisplayName]
    IN  Restrict(full, {n \in DOMAIN full : full[n] # ""})

\* json.Marshal of an IssueFields
EncodeIssueFields(f) ==
    LET full == [summary     |-> f.Summary,
                 description |-> f.Description,
                 issuetype   |-> EncodeNamed(f.IssueType),
                 project     |-> EncodeProject(f.Project),
                 priority    |-> EncodeNamed(f.Priority),
                 status      |-> EncodeNamed(f.Status),
                 reporter    |-> EncodeUser(f.Reporter),
                 assignee    |-> EncodeUser(f.Assignee),
                 labels      |-> f.Labels.elems,
                 components  |-> f.Components.elems]
    IN  Restrict(full, (DOMAIN full) \ OmittedIssueFields(f))

\* json.Marshal of a CreateIssueRequest
EncodeCreateIssueRequest(r) == [fields |-> EncodeIssueFields(r.Fields)]

(***************************************************************************)
(* The backend, as seen by the client                                      *)
(***************************************************************************)
Body(kind, raw, val) == [kind |-> kind, raw |-> raw, val |-> val]

EmptyBody == Body("empty", "", EmptyObject)

GarbageBody == Body("garbage", "<html>oops</html>", EmptyObject)

\* a body whose read fails half way (io.ReadAll returns an error)
UnreadableBody == Body("unreadable", "", EmptyObject)

JSONBody(o) == Body("json", "", o)

NoResponse == [status |-> 0, body |-> EmptyBody]

\* what the backend does with one request: the connection fails, or it
\* answers with a status and a body
TransportFailure == [kind |-> "transportErr", status |-> 0, body |-> EmptyBody]

Reply(status, body) == [kind |-> "response", status |-> status, body |-> body]

ErrorObject == [errorMessages |-> <<"Issue does not exist">>]

\* the answers that do not depend on the operation
FailureReplies ==
    {TransportFailure,
     Reply(200, UnreadableBody),
     Reply(200, GarbageBody),
     Reply(400, JSONBody(ErrorObject)),
     Reply(500, GarbageBody)}

\* answers below 400 that carry no body
BodilessReplies == {Reply(200, EmptyBody), Reply(304, EmptyBody)}

IssueFull ==
    [id |-> "10100", key |-> "PROJ-1",
     fields |-> [summary     |-> "Checkout works",
                 description |-> "Pay with a card",
                 issuetype   |-> [name |-> "Test"],
                 project     |-> [key |-> "PROJ"],
                 status      |-> [name |-> "Open"],
                 priority    |-> [name |-> "High"],
                 reporter    |-> [displayName |-> "Ann"],
                 assignee    |-> [displayName |-> "Bob"],
                 labels      |-> <<"ui", "pay">>]]

IssueBare == [id |-> "10101", key |-> "PROJ-2", fields |-> [summary |-> "Bare"]]

RECURSIVE SeqsUpTo(_, _)
\* the sequences over S of length at most n
SeqsUpTo(S, n) ==
    IF n = 0 THEN {<<>>}
    ELSE LET shorter == SeqsUpTo(S, n - 1)
         IN  shorter \cup {Append(q, x) : q \in shorter, x \in S}

SearchReplies ==
    {Reply(200, JSONBody([issues |-> is, total |-> Len(is)])) :
        is \in SeqsUpTo({IssueFull, IssueBare}, MaxIssues)}
    \cup {Reply(200, JSONBody(EmptyObject))}

CreateReplies ==
    {Reply(201, JSONBody([id |-> "10100", key |-> "PROJ-1", self |-> "u1"])),
     Reply(201, JSONBody([id |-> "10101", key |-> "PROJ-2", self |-> "u2"])),
     Reply(201, JSONBody(EmptyObject))}

IssueReplies ==
    {Reply(200, JSONBody(IssueFull)), Reply(200, JSONBody(IssueBare))}

(***************************************************************************)
(* Backend client (package jira, client.go)                                *)
(***************************************************************************)
NoBody == [present |-> FALSE, json |-> EmptyObject]

JSONPayload(o) == [present |-> TRUE, json |-> o]

\* base64 of username ":" apiToken; the encoding is one-to-one
BasicAuth(username, apiToken) == <<"Basic", [b64 |-> <<username, ":", apiToken>>]>>

\* http.NewRequest fails when the URL does not parse
Parseable(url) == \A i \in 1..Len(url) : url[i] \notin CtlPieces

\* makeRequest: the request it builds, the response or the error, and the
\* calls it made.  json.Marshal cannot fail on the payloads of this client
\* (strings and slices of strings), so that exit is not reachable.
makeRequest(c, method, endpoint, body, backend) ==
    LET url == c.BaseURL \o <<"/rest/api/3/">> \o endpoint
        req == [method  |-> method,
                url     |-> url,
                body    |-> body,
                headers |-> [ContentType   |-> "application/json",
                             Accept        |-> "application/json",
                             Authorization |-> BasicAuth(c.Username, c.APIToken)]]
    IN  IF ~Parseable(url)
        THEN [resp |-> NoResponse, open |-> FALSE,
              err |-> Err("failed to create request", 0, <<>>),
              sent |-> <<>>, trace |-> <<"makeRequest">>]
        ELSE IF backend.kind = "transportErr"
        THEN [resp |-> NoResponse, open |-> FALSE,
              err |-> Err("failed to make request", 0, <<>>),
              sent |-> <<req>>, trace |-> <<"makeRequest", "Do">>]
        ELSE [resp |-> [status |-> backend.status, body |-> backend.body],
              open |-> TRUE,
              err |-> NoError,
              sent |-> <<req>>, trace |-> <<"makeRequest", "Do">>]

\* handleResponse closing the body as its last statement instead of by a
\* deferred call: the exits that return an error leave the body open
handleResponse_CloseAtEnd(resp, hasTarget) ==
    LET body == resp.body
        tr   == <<"handleResponse", "ReadAll", "Close">>
        open == <<"handleResponse", "ReadAll">>
    IN  IF body.kind = "unreadable"
        THEN [err |-> Err("failed to read response body", 0, <<>>),
              target |-> EmptyObject, trace |-> open]
        ELSE IF resp.status >= 400
        THEN IF body.kind # "json"
             THEN [err |-> Err("HTTP", resp.status, <<body.raw>>),
                   target |-> EmptyObject, trace |-> open]
             ELSE [err |-> Err("Jira API error", resp.status,
                               DecodeErrorResponse(body.val).ErrorMessages.elems),
                   target |-> EmptyObject, trace |-> open]
        ELSE IF hasTarget /\ body.kind # "empty"
        THEN IF body.kind # "json"
             THEN [err |-> Err("failed to unmarshal response", 0, <<>>),
                   target |-> EmptyObject, trace |-> open]
             ELSE [err |-> NoError, target |-> body.val, trace |-> tr]
        ELSE [err |-> NoError, target |-> EmptyObject, trace |-> tr]

\* handleResponse: reads and closes the body, then the error or the JSON
\* value to decode into the target; the target stays zero, the decoding of
\* the empty object, when the body is empty or an error is returned
handleResponse(resp, hasTarget) ==
    LET body == resp.body
        tr   == <<"handleResponse", "ReadAll", "Close">>
    IN  IF body.kind = "unreadable"
        THEN [err |-> Err("failed to read response body", 0, <<>>),
              target |-> EmptyObject, trace |-> tr]
        ELSE IF resp.status >= 400
        THEN IF body.kind # "json"
             THEN [err |-> Err("HTTP", resp.status, <<body.raw>>),
                   target |-> EmptyObject, trace |-> tr]
             ELSE [err |-> Err("Jira API error", resp.status,
                               DecodeErrorResponse(body.val).ErrorMessages.elems),
                   target |-> EmptyObject, trace |-> tr]
        ELSE IF hasTarget /\ body.kind # "empty"
        THEN IF body.kind # "json"
             THEN [err |-> Err("failed to unmarshal response", 0, <<>>),
                   target |-> EmptyObject, trace |-> tr]
             ELSE [err |-> NoError, target |-> body.val, trace |-> tr]
        ELSE [err |-> NoError, target |-> EmptyObject, trace |-> tr]

ZeroTestCase == DecodeTestCase(EmptyObject)

ZeroTestExecution == DecodeTestExecution(EmptyObject)

ZeroTestResult == DecodeTestResult(EmptyObject)

\* what a client operation hands back: the entity (none when isNil), the
\* error, the requests given to the HTTP client and the calls made, in order
Result(val, err, sent, trace) ==
    [val |-> val, isNil |-> FALSE, err |-> err, sent |-> sent, trace |-> trace]

Failure(zero, err, sent, trace) ==
    [val |-> zero, isNil |-> TRUE, err |-> err, sent |-> sent, trace |-> trace]

getMockTestCases(t) ==
    <<[ZeroTestCase EXCEPT
          !.ID = "10001", !.Key = "TEST-1",
          !.Summary = "Login functionality test",
          !.Description = "Test user login with valid credentials",
          !.Status = "To Do", !.Priority = "High",
          !.Labels = Slice(<<"login", "authentication">>),
          !.TestType = "Manual", !.CreatedDate = t - 7,
          !.Reporter = "Demo User"],
      [ZeroTestCase EXCEPT
          !.ID = "10002", !.Key = "TEST-2",
          !.Summary = "Password reset functionality",
          !.Description = "Test password reset flow",
          !.Status = "In Progress", !.Priority = "Medium",
          !.Labels = Slice(<<"password", "reset">>),
          !.TestType = "Automated", !.CreatedDate = t - 5,
          !.Reporter = "Demo User"],
      [ZeroTestCase EXCEPT
          !.ID = "10003", !.Key = "TEST-3",
          !.Summary = "User registration validation",
          !.Description = "Test user registration with various input validations",
          !.Status = "Done", !.Priority = "Medium",
          !.Labels = Slice(<<"registration", "validation">>),
          !.TestType = "Manual", !.CreatedDate = t - 3,
          !.Reporter = "Demo User"]>>

\* the mock without the reporter overwritten
createMockTestCase_KeepsReporter(tc, t) ==
    [tc EXCEPT !.ID = "10004", !.Key = "TEST-4", !.Status = "To Do",
               !.CreatedDate = t]

createMockTestCase(tc, t) ==
    [tc EXCEPT !.ID = "10004", !.Key = "TEST-4", !.Status = "To Do",
               !.CreatedDate = t, !.Reporter = "Demo User"]

\* the mock without the execution status overwritten
createMockTestExecution_KeepsExecutionStatus(te, t) ==
    [te EXCEPT !.ID = "10005", !.Key = "EXEC-1", !.Status = "To Do",
               !.StartDate = t, !.ExecutedBy = "Demo User"]

createMockTestExecution(te, t) ==
    [te EXCEPT !.ID = "10005", !.Key = "EXEC-1", !.Status = "To Do",
               !.ExecutionStatus = "TODO", !.StartDate = t,
               !.ExecutedBy = "Demo User"]

\* the canned execution with a canned key instead of the requested one
getMockTestExecution_FixedKey(key, t) ==
    [ZeroTestExecution EXCEPT
        !.ID = "10005", !.Key = "EXEC-1",
        !.Summary = "Demo Test Execution",
        !.Description = "This is a demo test execution",
        !.Status = "In Progress",
        !.TestCases = Slice(<<"TEST-1", "TEST-2">>),
        !.ExecutionStatus = "EXECUTING",
        !.StartDate = t - 1,
        !.ExecutedBy = "Demo User",
        !.Environment = "QA",
        !.TestResults = Slice(<<
            [ZeroTestResult EXCEPT
                !.TestCaseKey = "TEST-1", !.Status = "PASS",
                !.Comment = "Test passed successfully",
                !.ExecutionTime = 5000, !.ExecutedBy = "Demo User",
                !.ExecutedOn = t],
            [ZeroTestResult EXCEPT
                !.TestCaseKey = "TEST-2", !.Status = "FAIL",
                !.Comment = "Test failed due to timeout",
                !.ExecutionTime = 10000, !.ExecutedBy = "Demo User",
                !.ExecutedOn = t,
                !.Defects = Slice(<<"BUG-123">>)]>>)]

getMockTestExecution(key, t) ==
    [ZeroTestExecution EXCEPT
        !.ID = "10005", !.Key = key,
        !.Summary = "Demo Test Execution",
        !.Description = "This is a demo test execution",
        !.Status = "In Progress",
        !.TestCases = Slice(<<"TEST-1", "TEST-2">>),
        !.ExecutionStatus = "EXECUTING",
        !.StartDate = t - 1,
        !.ExecutedBy = "Demo User",
        !.Environment = "QA",
        !.TestResults = Slice(<<
            [ZeroTestResult EXCEPT
                !.TestCaseKey = "TEST-1", !.Status = "PASS",
                !.Comment = "Test passed successfully",
                !.ExecutionTime = 5000, !.ExecutedBy = "Demo User",
                !.ExecutedOn = t],
            [ZeroTestResult EXCEPT
                !.TestCaseKey = "TEST-2", !.Status = "FAIL",
                !.Comment = "Test failed due to timeout",
                !.ExecutionTime = 10000, !.ExecutedBy = "Demo User",
                !.ExecutedOn = t,
                !.Defects = Slice(<<"BUG-123">>)]>>)]

\* the conversion with the labels left out
IssueToTestCase_NoLabels(issue) ==
    [ZeroTestCase EXCEPT
        !.ID = issue.ID,
        !.Key = issue.Key,
        !.Summary = issue.Fields.Summary,
        !.Description = issue.Fields.Description,
        !.Status = issue.Fields.Status.Name,
        !.Priority = issue.Fields.Priority.Name,
        !.Reporter = issue.Fields.Reporter.DisplayName,
        !.Assignee = issue.Fields.Assignee.DisplayName]

\* the conversion of one backend issue in ListTestCases
IssueToTestCase(issue) ==
    [ZeroTestCase EXCEPT
        !.ID = issue.ID,
        !.Key = issue.Key,
        !.Summary = issue.Fields.Summary,
        !.Description = issue.Fields.Description,
        !.Status = issue.Fields.Status.Name,
        !.Priority = issue.Fields.Priority.Name,
        !.Labels = issue.Fields.Labels,
        !.Reporter = issue.Fields.Reporter.DisplayName,
        !.Assignee = issue.Fields.Assignee.DisplayName]

SearchEndpoint(c) ==
    <<"search?jql=", "project = ", c.ProjectKey, " AND issuetype = Test",
      "&maxResults=", "100">>

\* ListTestCases with the canned records returned under demo credentials
\* whatever the backend answered
ListTestCases_DemoAlways(c, backend, t) ==
    LET mr == makeRequest(c, "GET", SearchEndpoint(c), NoBody, backend)
        hr == handleResponse(mr.resp, TRUE)
        jiraResp == DecodeJiraResponse(hr.target)
        issues == jiraResp.Issues.elems
    IN  IF mr.err # NoError
        THEN Failure(NilSlice, Wrap("failed to fetch test cases", mr.err),
                     mr.sent, mr.trace)
        ELSE IF isDemoCredentials(c)
        THEN Result(Slice(getMockTestCases(t)), NoError, mr.sent,
                    mr.trace \o hr.trace \o <<"isDemoCredentials">>)
        ELSE IF hr.err # NoError
        THEN Failure(NilSlice, hr.err, mr.sent,
                     mr.trace \o hr.trace \o <<"isDemoCredentials">>)
        ELSE Result(Slice([i \in 1..Len(issues) |-> IssueToTestCase(issues[i])]),
                    NoError, mr.sent, mr.trace \o hr.trace)

ListTestCases(c, backend, t) ==
    LET mr == makeRequest(c, "GET", SearchEndpoint(c), NoBody, backend)
        hr == handleResponse(mr.resp, TRUE)
        jiraResp == DecodeJiraResponse(hr.target)
        issues == jiraResp.Issues.elems
    IN  IF mr.err # NoError
        THEN Failure(NilSlice, Wrap("failed to fetch test cases", mr.err),
                     mr.sent, mr.trace)
        ELSE IF hr.err # NoError
        THEN IF isDemoCredentials(c)
             THEN Result(Slice(getMockTestCases(t)), NoError, mr.sent,
                         mr.trace \o hr.trace \o <<"isDemoCredentials">>)
             ELSE Failure(NilSlice, hr.err, mr.sent,
                          mr.trace \o hr.trace \o <<"isDemoCredentials">>)
        ELSE Result(Slice([i \in 1..Len(issues) |-> IssueToTestCase(issues[i])]),
                    NoError, mr.sent, mr.trace \o hr.trace)

\* the CreateIssueRequest built by CreateTestCase
TestCaseCreateRequest(c, tc) ==
    LET fields == [ZeroIssueFields EXCEPT
                      !.Summary = tc.Summary,
                      !.Description = tc.Description,
                      !.IssueType = [ZeroIssueType EXCEPT !.Name = "Test"],
                      !.Project = [ZeroProject EXCEPT !.Key = c.ProjectKey],
                      !.Labels = tc.Labels]
    IN  [Fields |-> IF tc.Priority # ""
                    THEN [fields EXCEPT
                            !.Priority = [ZeroPriority EXCEPT !.Name = tc.Priority]]
                    ELSE fields]

\* the created entity with the key of the input kept
CreatedTestCase_KeepsInputKey(tc, createResp, t) ==
    [tc EXCEPT !.ID = createResp.ID, !.Status = "To Do", !.CreatedDate = t]

\* the entity CreateTestCase returns once the backend has answered
CreatedTestCase(tc, createResp, t) ==
    [tc EXCEPT !.ID = createResp.ID, !.Key = createResp.Key,
               !.Status = "To Do", !.CreatedDate = t]

\* CreateTestCase with a second attempt after a failed request
CreateTestCase_RetriesOnce(c, tc, backend, t) ==
    LET payload == EncodeCreateIssueRequest(TestCaseCreateRequest(c, tc))
        first == makeRequest(c, "POST", <<"issue">>, JSONPayload(payload), backend)
        again == makeRequest(c, "POST", <<"issue">>, JSONPayload(payload), backend)
        mr == IF first.err # NoError
              THEN [again EXCEPT !.sent = first.sent \o again.sent,
                                 !.trace = first.trace \o again.trace]
              ELSE first
        hr == handleResponse(mr.resp, TRUE)
        createResp == DecodeCreateIssueResponse(hr.target)
        demo == <<"isDemoCredentials">>
    IN  IF isDemoCredentials(c)
        THEN Result(createMockTestCase(tc, t), NoError, <<>>, demo)
        ELSE IF mr.err # NoError
        THEN Failure(ZeroTestCase, Wrap("failed to create test case", mr.err),
                     mr.sent, demo \o mr.trace)
        ELSE IF hr.err # NoError
        THEN Failure(ZeroTestCase, hr.err, mr.sent, demo \o mr.trace \o hr.trace)
        ELSE Result(CreatedTestCase(tc, createResp, t), NoError, mr.sent,
                    demo \o mr.trace \o hr.trace)

CreateTestCase(c, tc, backend, t) ==
    LET payload == EncodeCreateIssueRequest(TestCaseCreateRequest(c, tc))
        mr == makeRequest(c, "POST", <<"issue">>, JSONPayload(payload), backend)
        hr == handleResponse(mr.resp, TRUE)
        createResp == DecodeCreateIssueResponse(hr.target)
        demo == <<"isDemoCredentials">>
    IN  IF isDemoCredentials(c)
        THEN Result(createMockTestCase(tc, t), NoError, <<>>, demo)
        ELSE IF mr.err # NoError
        THEN Failure(ZeroTestCase, Wrap("failed to create test case", mr.err),
                     mr.sent, demo \o mr.trace)
        ELSE IF hr.err # NoError
        THEN Failure(ZeroTestCase, hr.err, mr.sent, demo \o mr.trace \o hr.trace)
        ELSE Result(CreatedTestCase(tc, createResp, t), NoError, mr.sent,
                    demo \o mr.trace \o hr.trace)

\* the CreateIssueRequest built by CreateTestExecution
TestExecutionCreateRequest(c, te) ==
    [Fields |-> [ZeroIssueFields EXCEPT
                    !.Summary = te.Summary,
                    !.Description = te.Description,
                    !.IssueType = [ZeroIssueType EXCEPT !.Name = "Test Execution"],
                    !.Project = [ZeroProject EXCEPT !.Key = c.ProjectKey]]]

\* the created execution with the id of the input kept
CreatedTestExecution_KeepsInputID(te, createResp, t) ==
    [te EXCEPT !.Key = createResp.Key,
               !.Status = "To Do", !.ExecutionStatus = "TODO",
               !.StartDate = t]

\* the entity CreateTestExecution returns once the backend has answered
CreatedTestExecution(te, createResp, t) ==
    [te EXCEPT !.ID = createResp.ID, !.Key = createResp.Key,
               !.Status = "To Do", !.ExecutionStatus = "TODO",
               !.StartDate = t]

CreateTestExecution(c, te, backend, t) ==
    LET payload == EncodeCreateIssueRequest(TestExecutionCreateRequest(c, te))
        mr == makeRequest(c, "POST", <<"issue">>, JSONPayload(payload), backend)
        hr == handleResponse(mr.resp, TRUE)
        createResp == DecodeCreateIssueResponse(hr.target)
        demo == <<"isDemoCredentials">>
    IN  IF isDemoCredentials(c)
        THEN Result(createMockTestExecution(te, t), NoError, <<>>, demo)
        ELSE IF mr.err # NoError
        THEN Failure(ZeroTestExecution,
                     Wrap("failed to create test execution", mr.err),
                     mr.sent, demo \o mr.trace)
        ELSE IF hr.err # NoError
        THEN Failure(ZeroTestExecution, hr.err, mr.sent,
                     demo \o mr.trace \o hr.trace)
        ELSE Result(CreatedTestExecution(te, createResp, t), NoError, mr.sent,
                    demo \o mr.trace \o hr.trace)

\* the entity GetTestExecution builds from the backend's issue
IssueToTestExecution(issue) ==
    [ZeroTestExecution EXCEPT
        !.ID = issue.ID,
        !.Key = issue.Key,
        !.Summary = issue.Fields.Summary,
        !.Description = issue.Fields.Description,
        !.Status = issue.Fields.Status.Name]

GetTestExecution(c, key, backend, t) ==
    LET mr == makeRequest(c, "GET", <<"issue/", key>>, NoBody, backend)
        hr == handleResponse(mr.resp, TRUE)
        issue == DecodeJiraIssue(hr.target)
        demo == <<"isDemoCredentials">>
    IN  IF isDemoCredentials(c)
        THEN Result(getMockTestExecution(key, t), NoError, <<>>, demo)
        ELSE IF mr.err # NoError
        THEN Failure(ZeroTestExecution,
                     Wrap("failed to fetch test execution", mr.err),
                     mr.sent, demo \o mr.trace)
        ELSE IF hr.err # NoError
        THEN Failure(ZeroTestExecution, hr.err, mr.sent,
                     demo \o mr.trace \o hr.trace)
        ELSE Result(IssueToTestExecution(issue), NoError, mr.sent,
                    demo \o mr.trace \o hr.trace)

(***************************************************************************)
(* Inbound requests                                                        *)
(***************************************************************************)
\* a request body: text that is not JSON of the expected shape, or an object
BadJSON == [syntax |-> "bad", json |-> EmptyObject]

JSONRequest(o) == [syntax |-> "ok", json |-> o]

SummaryParts == {EmptyObject, [summary |-> ""], [summary |-> "Sprint 1"]}

\* names only the client of the API is expected to send
TestCaseClientParts ==
    {EmptyObject,
     [description |-> "no summary", testType |-> "Manual", assignee |-> "Cy",
      components |-> <<"web">>, updatedDate |-> 2,
      customFields |-> [team |-> "qa"]]}

\* names the system is expected to fill in, sent by the client all the same
TestCaseServerParts ==
    {EmptyObject,
     [id |-> "7", key |-> "OLD-7", status |-> "Done", reporter |-> "Eve",
      createdDate |-> 3]}

TestCaseObjects ==
    {s @@ p @@ l @@ c @@ v :
        s \in SummaryParts,
        p \in {EmptyObject, [priority |-> "High"]},
        l \in {EmptyObject, [labels |-> <<>>], [labels |-> <<"api", "integration">>]},
        c \in TestCaseClientParts,
        v \in TestCaseServerParts}

TestCaseBodies == {BadJSON} \cup {JSONRequest(o) : o \in TestCaseObjects}

TestExecutionClientParts ==
    {EmptyObject,
     [description |-> "nightly", environment |-> "QA", endDate |-> 4,
      testResults |-> <<[testCaseKey |-> "TEST-1", status |-> "PASS"]>>,
      customFields |-> [team |-> "qa"]]}

TestExecutionServerParts ==
    {EmptyObject,
     [id |-> "7", key |-> "OLD-7", status |-> "Done",
      executionStatus |-> "PASS", startDate |-> 3, executedBy |-> "Eve"]}

TestExecutionObjects ==
    {s @@ k @@ c @@ v :
        s \in SummaryParts,
        k \in {EmptyObject, [testCases |-> <<>>], [testCases |-> <<"TEST-1">>],
               [testCases |-> <<"TEST-1", "TEST-2">>]},
        c \in TestExecutionClientParts,
        v \in TestExecutionServerParts}

TestExecutionBodies == {BadJSON} \cup {JSONRequest(o) : o \in TestExecutionObjects}

\* the :key path parameters; the last one holds a control character
Keys == {"EXEC-1", "EXEC-7", "\n"}

(***************************************************************************)
(* Request handlers (main.go)                                              *)
(***************************************************************************)
\* c.ShouldBindJSON(&testCase): decoding, then the binding:"required" tags
BindTestCase(body) ==
    LET tc == DecodeTestCase(body.json)
    IN  IF body.syntax # "ok"
        THEN [val |-> ZeroTestCase, err |-> Err("invalid JSON", 0, <<>>)]
        ELSE IF tc.Summary = ""
        THEN [val |-> tc,
              err |-> Err("Field validation failed on the 'required' tag", 0,
                          <<"Summary">>)]
        ELSE [val |-> tc, err |-> NoError]

\* c.ShouldBindJSON(&testExecution): required fails on an empty string and
\* on a nil slice, not on an empty non-nil slice
BindTestExecution(body) ==
    LET te == DecodeTestExecution(body.json)
    IN  IF body.syntax # "ok"
        THEN [val |-> ZeroTestExecution, err |-> Err("invalid JSON", 0, <<>>)]
        ELSE IF te.Summary = ""
        THEN [val |-> te,
              err |-> Err("Field validation failed on the 'required' tag", 0,
                          <<"Summary">>)]
        ELSE IF te.TestCases.nil
        THEN [val |-> te,
              err |-> Err("Field validation failed on the 'required' tag", 0,
                          <<"TestCases">>)]
        ELSE [val |-> te, err |-> NoError]

\* c.JSON(status, body), with the requests sent and the calls made on the way
Respond(status, body, sent, trace) ==
    [status |-> status, body |-> body, sent |-> sent, trace |-> trace]

getTestCases(backend, t) ==
    LET r == ListTestCases(jiraClient, backend, t)
    IN  IF r.err # NoError
        THEN Respond(500, [error |-> "Failed to fetch test cases", details |-> r.err],
                     r.sent, r.trace)
        ELSE Respond(200, [testCases |-> r.val, count |-> Len(r.val.elems),
                           message |-> "Test cases retrieved successfully"],
                     r.sent, r.trace)

\* the handler without any check of the summary
createTestCase_NoValidation(body, backend, t) ==
    LET tc == DecodeTestCase(body.json)
        r == CreateTestCase(jiraClient, tc, backend, t)
    IN  IF body.syntax # "ok"
        THEN Respond(400, [error |-> "Invalid request body",
                           details |-> Err("invalid JSON", 0, <<>>)],
                     <<>>, <<>>)
        ELSE IF r.err # NoError
        THEN Respond(500, [error |-> "Failed to create test case", details |-> r.err],
                     r.sent, r.trace)
        ELSE Respond(201, [testCase |-> r.val,
                           message |-> "Test case created successfully"],
                     r.sent, r.trace)

createTestCase(body, backend, t) ==
    LET bind == BindTestCase(body)
        r == CreateTestCase(jiraClient, bind.val, backend, t)
    IN  IF bind.err # NoError
        THEN Respond(400, [error |-> "Invalid request body", details |-> bind.err],
                     <<>>, <<>>)
        ELSE IF bind.val.Summary = ""
        THEN Respond(400, [error |-> "Summary is required"], <<>>, <<>>)
        ELSE IF r.err # NoError
        THEN Respond(500, [error |-> "Failed to create test case", details |-> r.err],
                     r.sent, r.trace)
        ELSE Respond(201, [testCase |-> r.val,
                           message |-> "Test case created successfully"],
                     r.sent, r.trace)

\* the handler with a canned key instead of the requested one
getTestCase_FixedKey(key) ==
    Respond(200, [testCase |-> [id |-> "10001", key |-> "TEST-1",
                                summary |-> "Sample Test Case",
                                description |-> "This is a sample test case",
                                status |-> "To Do", priority |-> "Medium"],
                  message |-> "Test case retrieved successfully"],
            <<>>, <<>>)

getTestCase(key) ==
    Respond(200, [testCase |-> [id |-> "10001", key |-> key,
                                summary |-> "Sample Test Case",
                                description |-> "This is a sample test case",
                                status |-> "To Do", priority |-> "Medium"],
                  message |-> "Test case retrieved successfully"],
            <<>>, <<>>)

mockExecutions ==
    <<[id |-> "10005", key |-> "EXEC-1", summary |-> "Sprint 1 Test Execution",
       status |-> "In Progress", executionStatus |-> "EXECUTING",
       testCases |-> <<"TEST-1", "TEST-2">>, environment |-> "QA"],
      [id |-> "10006", key |-> "EXEC-2", summary |-> "Regression Test Execution",
       status |-> "Done", executionStatus |-> "PASS",
       testCases |-> <<"TEST-1", "TEST-2", "TEST-3">>, environment |-> "Staging"]>>

getTestExecutions ==
    Respond(200, [testExecutions |-> mockExecutions, count |-> Len(mockExecutions),
                  message |-> "Test executions retrieved successfully"],
            <<>>, <<>>)

\* the handler without the check of the length of the test-case list
createTestExecution_NoLenCheck(body, backend, t) ==
    LET bind == BindTestExecution(body)
        r == CreateTestExecution(jiraClient, bind.val, backend, t)
    IN  IF bind.err # NoError
        THEN Respond(400, [error |-> "Invalid request body", details |-> bind.err],
                     <<>>, <<>>)
        ELSE IF bind.val.Summary = ""
        THEN Respond(400, [error |-> "Summary is required"], <<>>, <<>>)
        ELSE IF r.err # NoError
        THEN Respond(500, [error |-> "Failed to create test execution",
                           details |-> r.err],
                     r.sent, r.trace)
        ELSE Respond(201, [testExecution |-> r.val,
                           message |-> "Test execution created successfully"],
                     r.sent, r.trace)

createTestExecution(body, backend, t) ==
    LET bind == BindTestExecution(body)
        r == CreateTestExecution(jiraClient, bind.val, backend, t)
    IN  IF bind.err # NoError
        THEN Respond(400, [error |-> "Invalid request body", details |-> bind.err],
                     <<>>, <<>>)
        ELSE IF bind.val.Summary = ""
        THEN Respond(400, [error |-> "Summary is required"], <<>>, <<>>)
        ELSE IF Len(bind.val.TestCases.elems) = 0
        THEN Respond(400, [error |-> "At least one test case is required"],
                     <<>>, <<>>)
        ELSE IF r.err # NoError
        THEN Respond(500, [error |-> "Failed to create test execution",
                           details |-> r.err],
                     r.sent, r.trace)
        ELSE Respond(201, [testExecution |-> r.val,
                           message |-> "Test execution created successfully"],
                     r.sent, r.trace)

getTestExecution(key, backend, t) ==
    LET r == GetTestExecution(jiraClient, key, backend, t)
    IN  IF r.err # NoError
        THEN Respond(500, [error |-> "Failed to fetch test execution",
                           details |-> r.err],
                     r.sent, r.trace)
        ELSE Respond(200, [testExecution |-> r.val,
                           message |-> "Test execution retrieved successfully"],
                     r.sent, r.trace)

healthCheck ==
    Respond(200, [status |-> "healthy",
                  jira |-> [base_url    |-> config.JiraBaseURL,
                            project_key |-> config.JiraProjectKey,
                            demo_mode   |-> config.JiraUsername = DemoUsername]],
            <<>>, <<>>)

getAPIInfo ==
    Respond(200, [name |-> "Jira Xray-like Integration API",
                  version |-> "1.0.0",
                  configuration |->
                      [jira_base_url |-> config.JiraBaseURL,
                       project_key   |-> config.JiraProjectKey,
                       demo_mode     |-> config.JiraUsername = DemoUsername]],
            <<>>, <<>>)

(***************************************************************************)
(* The server: one step per request served                                 *)
(***************************************************************************)
NoInput == [syntax |-> "none", json |-> EmptyObject]

\* the record of the request served last: the route, its input (a body and
\* a path parameter), the clock when it was served, the response, and every
\* request given to the HTTP client with the backend's answer to it
Served(op, body, key, h, backend, t) ==
    [op |-> op, body |-> body, key |-> key, at |-> t,
     status |-> h.status, response |-> h.body,
     exchange |-> [i \in 1..Len(h.sent) |->
                      [request |-> h.sent[i], answer |-> backend]],
     trace |-> h.trace]

\* the backend's answer is recorded only when a request reached it
Canonical(h, backend) == Len(h.sent) = 0 => backend = TransportFailure

\* the goroutines gin serves requests on, and one that serves none
Slots == 1..MaxInFlight

Idle == [pc |-> "idle", op |-> "none", body |-> NoInput, key |-> "",
         sent |-> <<>>, answer |-> TransportFailure, at |-> ZeroTime,
         status |-> 0, response |-> EmptyObject]

ListBackends == FailureReplies \cup BodilessReplies \cup SearchReplies

CreateBackends == FailureReplies \cup BodilessReplies \cup CreateReplies

IssueBackends == FailureReplies \cup BodilessReplies \cup IssueReplies

Init ==
    /\ \E env \in Envs :
          /\ LoadConfig(env).ok
          /\ config = LoadConfig(env).config
    /\ jiraClient = NewClient(config.JiraBaseURL, config.JiraUsername,
                              config.JiraAPIToken, config.JiraProjectKey)
    /\ now = StartTime
    /\ last = [op |-> "none", body |-> NoInput, key |-> "", at |-> StartTime,
               status |-> 0, response |-> EmptyObject, exchange |-> <<>>,
               trace |-> <<>>]
    /\ inflight = [s \in Slots |-> Idle]

\* GET /api/testcases
GET_testcases ==
    /\ \E backend \in ListBackends :
          LET h == getTestCases(backend, now)
          IN  /\ Canonical(h, backend)
              /\ last' = Served("getTestCases", NoInput, "", h, backend, now)
    /\ UNCHANGED <<config, jiraClient, now, inflight>>

\* POST /api/testcases
POST_testcases ==
    /\ \E body \in TestCaseBodies, backend \in CreateBackends :
          LET h == createTestCase(body, backend, now)
          IN  /\ Canonical(h, backend)
              /\ last' = Served("createTestCase", body, "", h, backend, now)
    /\ UNCHANGED <<config, jiraClient, now, inflight>>

\* GET /api/testcases/:key
GET_testcases_key ==
    /\ \E key \in Keys :
          last' = Served("getTestCase", NoInput, key, getTestCase(key),
                         TransportFailure, now)
    /\ UNCHANGED <<config, jiraClient, now, inflight>>

\* GET /api/testexecutions
GET_testexecutions ==
    /\ last' = Served("getTestExecutions", NoInput, "", getTestExecutions,
                      TransportFailure, now)
    /\ UNCHANGED <<config, jiraClient, now, inflight>>

\* POST /api/testexecutions
POST_testexecutions ==
    /\ \E body \in TestExecutionBodies, backend \in CreateBackends :
          LET h == createTestExecution(body, backend, now)
          IN  /\ Canonical(h, backend)
              /\ last' = Served("createTestExecution", body, "", h, backend, now)
    /\ UNCHANGED <<config, jiraClient, now, inflight>>

\* GET /api/testexecutions/:key
GET_testexecutions_key ==
    /\ \E key \in Keys, backend \in IssueBackends :
          LET h == getTestExecution(key, backend, now)
          IN  /\ Canonical(h, backend)
              /\ last' = Served("getTestExecution", NoInput, key, h, backend, now)
    /\ UNCHANGED <<config, jiraClient, now, inflight>>

\* GET /api/health
GET_health ==
    /\ last' = Served("healthCheck", NoInput, "", healthCheck, TransportFailure, now)
    /\ UNCHANGED <<config, jiraClient, now, inflight>>

\* GET /api/info
GET_info ==
    /\ last' = Served("getAPIInfo", NoInput, "", getAPIInfo, TransportFailure, now)
    /\ UNCHANGED <<config, jiraClient, now, inflight>>

\* time passes between two requests
Tick ==
    /\ now < StartTime + MaxTick
    /\ now' = now + 1
    /\ UNCHANGED <<config, jiraClient, last, inflight>>

Next ==
    \/ GET_testcases
    \/ POST_testcases
    \/ GET_testcases_key
    \/ GET_testexecutions
    \/ POST_testexecutions
    \/ GET_testexecutions_key
    \/ GET_health
    \/ GET_info
    \/ Tick

Spec == Init /\ [][Next]_vars

(***************************************************************************)
(* The server under concurrency: gin serves every request on a goroutine   *)
(* of its own, and a handler that calls the backend is suspended in        *)
(* HTTPClient.Do until the backend answers.  The handlers share the        *)
(* globals config and jiraClient; everything else a handler touches is a   *)
(* local of its goroutine, kept here in its slot of inflight.              *)
(***************************************************************************)
\* the route table: the handler registered for each route
api(op, body, key, backend, t) ==
    CASE op = "getTestCases"     -> getTestCases(backend, t)
      [] op = "createTestCase"   -> createTestCase(body, backend, t)
      [] op = "getTestCase"      -> getTestCase(key)
      [] op = "getTestExecution" -> getTestExecution(key, backend, t)
      [] op = "healthCheck"      -> healthCheck

\* the client a method with the receiver c leaves behind once it has given
\* the requests sent to the HTTP client: the URL, the credentials and the
\* payload are locals of makeRequest, no field of c is assigned
Receiver_KeepsURL(c, sent) ==
    IF Len(sent) = 0 THEN c ELSE [c EXCEPT !.BaseURL = sent[1].url]

Receiver(c, sent) == c

\* the requests that arrive while others are served
InFlightInputs ==
    {[op |-> "getTestCases", body |-> NoInput, key |-> ""],
     [op |-> "createTestCase",
      body |-> JSONRequest([summary |-> "Sprint 1"]), key |-> ""],
     [op |-> "getTestCase", body |-> NoInput, key |-> "EXEC-7"],
     [op |-> "getTestExecution", body |-> NoInput, key |-> "EXEC-7"],
     [op |-> "healthCheck", body |-> NoInput, key |-> ""]}

\* the backend's answers to the request of an operation
InFlightAnswers(op) ==
    CASE op = "getTestCases" ->
            {TransportFailure,
             Reply(200, JSONBody([issues |-> <<IssueBare>>, total |-> 1]))}
      [] op = "createTestCase" ->
            {Reply(400, JSONBody(ErrorObject)),
             Reply(201, JSONBody([id |-> "10100", key |-> "PROJ-1",
                                  self |-> "u1"]))}
      [] op = "getTestExecution" ->
            {Reply(200, GarbageBody), Reply(200, JSONBody(IssueFull))}
      [] OTHER -> {}

\* a request arrives and its handler runs on the goroutine s, to its end
\* when it gives no request to the HTTP client, else up to HTTPClient.Do
Accept(s) ==
    /\ inflight[s].pc = "idle"
    /\ \E in \in InFlightInputs :
          \E h \in {api(in.op, in.body, in.key, TransportFailure, now)} :
              /\ inflight' =
                    [inflight EXCEPT ![s] =
                        [pc |-> IF Len(h.sent) = 0 THEN "done" ELSE "waiting",
                         op |-> in.op, body |-> in.body, key |-> in.key,
                         sent |-> h.sent, answer |-> TransportFailure,
                         at |-> now,
                         status |-> IF Len(h.sent) = 0 THEN h.status ELSE 0,
                         response |-> IF Len(h.sent) = 0 THEN h.body
                                      ELSE EmptyObject]]
              /\ jiraClient' = Receiver(jiraClient, h.sent)
    /\ UNCHANGED <<config, now, last>>

\* the backend answers the request of the goroutine s, and its handler runs
\* to its end with that answer and the clock's reading
Return(s) ==
    /\ inflight[s].pc = "waiting"
    /\ \E answer \in InFlightAnswers(inflight[s].op) :
          \E h \in {api(inflight[s].op, inflight[s].body, inflight[s].key,
                        answer, now)} :
              inflight' =
                 [inflight EXCEPT ![s] =
                     [@ EXCEPT !.pc = "done", !.answer = answer, !.at = now,
                               !.status = h.status, !.response = h.body]]
    /\ UNCHANGED <<config, jiraClient, now, last>>

\* the response is written and the goroutine is free for the next request
Finish(s) ==
    /\ inflight[s].pc = "done"
    /\ inflight' = [inflight EXCEPT ![s] = Idle]
    /\ UNCHANGED <<config, jiraClient, now, last>>

NextConc ==
    \/ \E s \in Slots : Accept(s)
    \/ \E s \in Slots : Return(s)
    \/ \E s \in Slots : Finish(s)
    \/ Tick

SpecConc == Init /\ [][NextConc]_vars

(***************************************************************************)
(* Properties                                                              *)
(***************************************************************************)
\* demo mode as the configuration states it
DemoConfigured ==
    \/ config.JiraUsername = "demo_user"
    \/ config.JiraAPIToken = "demo_token_replace_with_actual"

\* the number of outbound backend calls of the request served last
OutboundCalls ==
    Cardinality({i \in DOMAIN last.trace : last.trace[i] = "makeRequest"})

NoOutboundCall == OutboundCalls = 0 /\ last.exchange = <<>>

\* the body of the request served last is JSON, and its decoded fields
WellFormed == last.body.syntax = "ok"

InputSummary == Field(last.body.json, "summary", "")

InputTestCases == Field(last.body.json, "testCases", <<>>)

InputTestCase == DecodeTestCase(last.body.json)

\* the backend's answer to the one request that reached it
Answer == last.exchange[1].answer

\* the outbound call failed: no request could be built, the transport failed,
\* the backend answered with an error status (400 and above), or the body is
\* unreadable or malformed
CallFailed ==
    \/ Len(last.exchange) = 0
    \/ Answer.kind = "transportErr"
    \/ Answer.status >= 400
    \/ Answer.body.kind \in {"unreadable", "garbage"}

\* the outbound call succeeded: an answer below 400 whose body is empty or
\* decodes
CallSucceeded ==
    /\ Len(last.exchange) = 1
    /\ Answer.kind = "response"
    /\ Answer.status < 400
    /\ Answer.body.kind \in {"empty", "json"}

\* C1: a POST /api/testcases whose summary is empty or missing is answered
\* with 400 and issues no outbound backend call, whatever the credentials
C1_EmptySummaryRejected ==
    (last.op = "createTestCase" /\ WellFormed /\ InputSummary = "")
        => (last.status = 400 /\ NoOutboundCall)

C1_Witness ==
    /\ last.op = "createTestCase" /\ WellFormed
    /\ "summary" \notin DOMAIN last.body.json
    /\ "description" \in DOMAIN last.body.json
    /\ ~DemoConfigured
    /\ Parseable(jiraClient.BaseURL)
    /\ last.status = 400

\* C2: a POST /api/testexecutions whose testCases list is empty or missing
\* is answered with 400 and issues no outbound backend call, whatever the
\* credentials
C2_EmptyTestCasesRejected ==
    (last.op = "createTestExecution" /\ WellFormed /\ Len(InputTestCases) = 0)
        => (last.status = 400 /\ NoOutboundCall)

C2_Witness ==
    /\ last.op = "createTestExecution" /\ WellFormed
    /\ InputSummary # ""
    /\ "testCases" \in DOMAIN last.body.json
    /\ Len(InputTestCases) = 0
    /\ ~DemoConfigured
    /\ Parseable(jiraClient.BaseURL)
    /\ last.status = 400

\* C3 as stated: under demo credentials the created test case has the fixed
\* id, key, status and reporter, and every other field is the input's
C3_AllOtherFieldsEchoed ==
    (last.op = "createTestCase" /\ DemoConfigured /\ WellFormed /\ InputSummary # "")
        => /\ last.status = 201
           /\ NoOutboundCall
           /\ last.response.testCase =
                [InputTestCase EXCEPT !.ID = "10004", !.Key = "TEST-4",
                                      !.Status = "To Do", !.Reporter = "Demo User"]

\* C3 amended: under demo credentials the created test case has the fixed
\* id, key, status and reporter, its created date is the time of the call,
\* and every other field is the input's; no outbound call is issued.  Two
\* calls with the same input therefore agree on all but the created date.
C3_EchoedButCreatedDate ==
    (last.op = "createTestCase" /\ DemoConfigured /\ WellFormed /\ InputSummary # "")
        => /\ last.status = 201
           /\ NoOutboundCall
           /\ last.response.testCase =
                [InputTestCase EXCEPT !.ID = "10004", !.Key = "TEST-4",
                                      !.Status = "To Do", !.Reporter = "Demo User",
                                      !.CreatedDate = last.at]

C3_Witness ==
    /\ last.op = "createTestCase" /\ DemoConfigured /\ last.status = 201
    /\ InputTestCase.Reporter = "Eve"
    /\ InputTestCase.CreatedDate = 3
    /\ InputTestCase.Description # ""
    /\ last.response.testCase.CreatedDate = last.at
    /\ last.at > StartTime

\* the three canned records, as served at time t
CannedTestCases(t) ==
    <<[ID |-> "10001", Key |-> "TEST-1", Summary |-> "Login functionality test",
       Description |-> "Test user login with valid credentials",
       Status |-> "To Do", Priority |-> "High",
       Labels |-> [nil |-> FALSE, elems |-> <<"login", "authentication">>],
       Components |-> NilSlice, TestType |-> "Manual",
       CreatedDate |-> t - 7, UpdatedDate |-> 0,
       Reporter |-> "Demo User", Assignee |-> "", CustomFields |-> NilMap],
      [ID |-> "10002", Key |-> "TEST-2", Summary |-> "Password reset functionality",
       Description |-> "Test password reset flow",
       Status |-> "In Progress", Priority |-> "Medium",
       Labels |-> [nil |-> FALSE, elems |-> <<"password", "reset">>],
       Components |-> NilSlice, TestType |-> "Automated",
       CreatedDate |-> t - 5, UpdatedDate |-> 0,
       Reporter |-> "Demo User", Assignee |-> "", CustomFields |-> NilMap],
      [ID |-> "10003", Key |-> "TEST-3", Summary |-> "User registration validation",
       Description |-> "Test user registration with various input validations",
       Status |-> "Done", Priority |-> "Medium",
       Labels |-> [nil |-> FALSE, elems |-> <<"registration", "validation">>],
       Components |-> NilSlice, TestType |-> "Manual",
       CreatedDate |-> t - 3, UpdatedDate |-> 0,
       Reporter |-> "Demo User", Assignee |-> "", CustomFields |-> NilMap]>>

ReturnedCanned ==
    /\ last.status = 200
    /\ last.response.testCases.elems = CannedTestCases(last.at)

\* the test case a backend issue (a JSON object) stands for
MappedTestCase(o) ==
    LET f == Field(o, "fields", EmptyObject)
        name(n) == Field(Field(f, n, EmptyObject), "name", "")
        user(n) == Field(Field(f, n, EmptyObject), "displayName", "")
    IN  [ID |-> Field(o, "id", ""), Key |-> Field(o, "key", ""),
         Summary |-> Field(f, "summary", ""),
         Description |-> Field(f, "description", ""),
         Status |-> name("status"), Priority |-> name("priority"),
         Labels |-> IF "labels" \in DOMAIN f
                    THEN [nil |-> FALSE, elems |-> f["labels"]] ELSE NilSlice,
         Components |-> NilSlice, TestType |-> "",
         CreatedDate |-> 0, UpdatedDate |-> 0,
         Reporter |-> user("reporter"), Assignee |-> user("assignee"),
         CustomFields |-> NilMap]

AnswerIssues == Field(Answer.body.val, "issues", <<>>)

NamedFailure ==
    /\ Len(last.exchange) = 1
    /\ \/ Answer.kind = "transportErr"
       \/ Answer.status \notin 200..299
       \/ Answer.body.kind = "garbage"

\* C5: under demo credentials ListTestCases answers every backend failure
\* with the three canned records and no error; under other credentials the
\* failure is propagated as an error
C5_EveryFailureFallsBack ==
    (last.op = "getTestCases" /\ NamedFailure)
        => IF DemoConfigured THEN ReturnedCanned ELSE last.status = 500

\* the operations that reached the client with the demo check up front
ReachedClient ==
    /\ last.op \in {"createTestCase", "createTestExecution", "getTestExecution"}
    /\ last.status # 400

\* the positions of a call in the calls of the request served last
Positions(call) == {i \in DOMAIN last.trace : last.trace[i] = call}

\* C6: demo mode is the username or the token being the placeholder; create
\* and get check it before any outbound call and issue none in demo mode,
\* ListTestCases makes its outbound call first and checks demo mode only
\* after the call has failed
C6_DemoCheckOrder ==
    /\ ReachedClient =>
         /\ last.trace[1] = "isDemoCredentials"
         /\ DemoConfigured => (NoOutboundCall /\ last.status \in {200, 201})
         /\ ~DemoConfigured => (OutboundCalls = 1 /\ last.trace[2] = "makeRequest")
    /\ last.op = "getTestCases" =>
         /\ last.trace[1] = "makeRequest"
         /\ OutboundCalls = 1
         /\ \A i \in Positions("isDemoCredentials") :
               /\ \E j \in Positions("handleResponse") : j < i
               /\ Len(last.exchange) = 1
               /\ CallFailed
               /\ IF DemoConfigured THEN ReturnedCanned ELSE last.status = 500
         /\ ReturnedCanned => (DemoConfigured /\ Positions("isDemoCredentials") # {})

C6_Witness ==
    /\ last.op = "getTestCases"
    /\ config.JiraUsername # "demo_user"
    /\ config.JiraAPIToken = "demo_token_replace_with_actual"
    /\ last.trace = <<"makeRequest", "Do", "handleResponse", "ReadAll", "Close",
                      "isDemoCredentials">>
    /\ Answer.status = 500
    /\ ReturnedCanned

\* the canned execution, as served for key at time t
CannedExecution(key, t) ==
    [ID |-> "10005", Key |-> key, Summary |-> "Demo Test Execution",
     Description |-> "This is a demo test execution",
     Status |-> "In Progress",
     TestCases |-> [nil |-> FALSE, elems |-> <<"TEST-1", "TEST-2">>],
     ExecutionStatus |-> "EXECUTING",
     StartDate |-> t - 1, EndDate |-> 0,
     ExecutedBy |-> "Demo User", Environment |-> "QA",
     TestResults |->
        [nil |-> FALSE,
         elems |-> <<[TestCaseKey |-> "TEST-1", Status |-> "PASS",
                      Comment |-> "Test passed successfully",
                      ExecutionTime |-> 5000, ExecutedBy |-> "Demo User",
                      ExecutedOn |-> t, Defects |-> NilSlice,
                      Evidence |-> NilSlice],
                     [TestCaseKey |-> "TEST-2", Status |-> "FAIL",
                      Comment |-> "Test failed due to timeout",
                      ExecutionTime |-> 10000, ExecutedBy |-> "Demo User",
                      ExecutedOn |-> t,
                      Defects |-> [nil |-> FALSE, elems |-> <<"BUG-123">>],
                      Evidence |-> NilSlice]>>],
     CustomFields |-> NilMap]

\* C7 as stated: under demo credentials GetTestExecution returns the
\* requested key and, in every other field, one fixed value
C7_AllOtherFieldsFixed ==
    (last.op = "getTestExecution" /\ DemoConfigured)
        => /\ last.status = 200
           /\ NoOutboundCall
           /\ last.response.testExecution = CannedExecution(last.key, StartTime)

\* C7 amended: under demo credentials GetTestExecution returns the requested
\* key; every other field is independent of the key: a fixed value, except
\* the start date (one day before the call) and the two results' execution
\* dates (the time of the call); no outbound call is issued
C7_FixedButDates ==
    (last.op = "getTestExecution" /\ DemoConfigured)
        => /\ last.status = 200
           /\ NoOutboundCall
           /\ last.response.testExecution = CannedExecution(last.key, last.at)

C7_Witness ==
    /\ last.op = "getTestExecution" /\ DemoConfigured
    /\ last.key = "EXEC-7"
    /\ last.at > StartTime
    /\ last.response.testExecution.Key = "EXEC-7"
    /\ last.response.testExecution.TestResults.elems[2].Defects.elems = <<"BUG-123">>

InputTestExecution == DecodeTestExecution(last.body.json)

\* C8: under demo credentials a POST /api/testexecutions with a summary and
\* a non-empty testCases list yields 201 with key "EXEC-1", status "To Do"
\* and executionStatus "TODO" whatever the input supplied, keeps the input's
\* summary, testCases and environment, and issues no outbound call
C8_DemoExecutionCreated ==
    (/\ last.op = "createTestExecution" /\ DemoConfigured /\ WellFormed
     /\ InputSummary # "" /\ Len(InputTestCases) > 0)
        => /\ last.status = 201
           /\ NoOutboundCall
           /\ last.response.testExecution.Key = "EXEC-1"
           /\ last.response.testExecution.Status = "To Do"
           /\ last.response.testExecution.ExecutionStatus = "TODO"
           /\ last.response.testExecution.Summary = InputSummary
           /\ last.response.testExecution.TestCases.elems = InputTestCases
           /\ last.response.testExecution.Environment =
                 Field(last.body.json, "environment", "")

C8_Witness ==
    /\ last.op = "createTestExecution" /\ DemoConfigured /\ last.status = 201
    /\ InputSummary = "Sprint 1"
    /\ InputTestCases = <<"TEST-1", "TEST-2">>
    /\ Field(last.body.json, "environment", "") = "QA"
    /\ Field(last.body.json, "executionStatus", "") = "PASS"
    /\ last.response.testExecution.ExecutionStatus = "TODO"

\* C9: under other than demo credentials a CreateTestCase whose backend call
\* succeeds returns the input with id and key taken from the backend's
\* answer, status "To Do" and every other field but the created date
\* unchanged; one whose backend call fails returns an error and no entity
C9_CreatedFromBackendAnswer ==
    (/\ last.op = "createTestCase" /\ ~DemoConfigured /\ WellFormed
     /\ InputSummary # "")
        => /\ CallSucceeded =>
                /\ last.status = 201
                /\ last.response.testCase =
                      [InputTestCase EXCEPT
                          !.ID = Field(Answer.body.val, "id", ""),
                          !.Key = Field(Answer.body.val, "key", ""),
                          !.Status = "To Do",
                          !.CreatedDate = last.response.testCase.CreatedDate]
           /\ CallFailed =>
                /\ last.status = 500
                /\ "testCase" \notin DOMAIN last.response
                /\ last.response.details # NoError

C9_Witness ==
    /\ last.op = "createTestCase" /\ ~DemoConfigured /\ CallSucceeded
    /\ InputTestCase.Key = "OLD-7"
    /\ InputTestCase.Description # ""
    /\ Answer.status = 201
    /\ last.response.testCase.Key = "PROJ-2"
    /\ last.response.testCase.ID = "10101"

\* the creation payload of the request served last, stored as an issue and
\* read back through the Issue model into a test case
ReadBack ==
    LET payload == last.exchange[1].request.body.json
    IN  IssueToTestCase(DecodeJiraIssue([id |-> "1", key |-> "K-1",
                                         fields |-> payload["fields"]]))

\* C10: the creation payload CreateTestCase builds from a test case, mapped
\* back with ListTestCases' conversion, gives the same summary, description
\* and labels, and the same priority when the priority is not empty
C10_RoundTrip ==
    (last.op = "createTestCase" /\ Len(last.exchange) = 1)
        => /\ ReadBack.Summary = InputTestCase.Summary
           /\ ReadBack.Description = InputTestCase.Description
           /\ ReadBack.Labels.elems = InputTestCase.Labels.elems
           /\ InputTestCase.Priority # "" =>
                 ReadBack.Priority = InputTestCase.Priority

C10_Witness ==
    /\ last.op = "createTestCase" /\ Len(last.exchange) = 1
    /\ InputTestCase.Labels.elems = <<"api", "integration">>
    /\ InputTestCase.Priority = "High"
    /\ InputTestCase.Description # ""
    /\ ReadBack.Labels.elems = <<"api", "integration">>
    /\ ReadBack.Priority = "High"

\* the creation payload given to the HTTP client by the request served last
SentFields == last.exchange[1].request.body.json["fields"]

\* C11: the payload built from a test case carries summary, description,
\* issue type "Test", labels and the configured project key, and a priority
\* entry exactly when the test case's priority is not empty
C11_PriorityOnlyWhenSet ==
    (last.op = "createTestCase" /\ Len(last.exchange) = 1)
        => /\ Field(SentFields, "summary", "") = InputTestCase.Summary
           /\ Field(SentFields, "description", "") = InputTestCase.Description
           /\ Field(SentFields, "labels", <<>>) = InputTestCase.Labels.elems
           /\ SentFields["issuetype"] = [name |-> "Test"]
           /\ SentFields["project"] = [key |-> config.JiraProjectKey]
           /\ ("priority" \in DOMAIN SentFields) <=> (InputTestCase.Priority # "")

\* C13: a POST /api/testcases with a well-formed body that has no summary is
\* answered with 400 and the message that the summary is required, not with
\* the message of an invalid request body
C13_SummaryRequiredMessage ==
    (last.op = "createTestCase" /\ WellFormed /\ InputSummary = "")
        => /\ last.status = 400
           /\ last.response.error = "Summary is required"

\* the answer of GET /api/testcases/:key for key
CannedTestCaseAnswer(key) ==
    [testCase |-> [id |-> "10001", key |-> key, summary |-> "Sample Test Case",
                   description |-> "This is a sample test case",
                   status |-> "To Do", priority |-> "Medium"],
     message |-> "Test case retrieved successfully"]

\* C15: GET /api/testcases/:key and GET /api/testexecutions always answer
\* 200 with canned data, one test case echoing the requested key and two
\* executions with count 2, and never issue an outbound backend call
C15_CannedHandlers ==
    /\ last.op = "getTestCase" =>
          /\ last.status = 200
          /\ last.response = CannedTestCaseAnswer(last.key)
          /\ NoOutboundCall
    /\ last.op = "getTestExecutions" =>
          /\ last.status = 200
          /\ last.response.count = 2
          /\ Len(last.response.testExecutions) = 2
          /\ last.response.testExecutions[1].key = "EXEC-1"
          /\ last.response.testExecutions[1].id = "10005"
          /\ last.response.testExecutions[2].key = "EXEC-2"
          /\ last.response.testExecutions[2].id = "10006"
          /\ NoOutboundCall

C15_Witness ==
    /\ last.op = "getTestCase"
    /\ last.key = "EXEC-7"
    /\ ~DemoConfigured
    /\ Parseable(jiraClient.BaseURL)
    /\ last.response.testCase.key = "EXEC-7"

\* C16: with the demo credentials configured every API call returns mock
\* data: no endpoint returns data derived from the backend and none returns
\* a backend error
C16_DemoAlwaysMock ==
    (DemoConfigured /\ last.op # "none")
        => /\ last.status # 500
           /\ last.op = "getTestCases" => ReturnedCanned

\* C19: the demo_mode flag of GET /api/health and GET /api/info is true
\* exactly when the client's demo check is true
C19_DemoFlagAgrees ==
    /\ last.op = "healthCheck" =>
          (last.response.jira.demo_mode <=> isDemoCredentials(jiraClient))
    /\ last.op = "getAPIInfo" =>
          (last.response.configuration.demo_mode <=> isDemoCredentials(jiraClient))

\* C20: under other than demo credentials an entity returned without error
\* by CreateTestCase or CreateTestExecution has a non-empty id and key
C20_CreatedHasIdentifiers ==
    /\ (last.op = "createTestCase" /\ ~DemoConfigured /\ last.status = 201) =>
          /\ last.response.testCase.ID # ""
          /\ last.response.testCase.Key # ""
    /\ (last.op = "createTestExecution" /\ ~DemoConfigured /\ last.status = 201) =>
          /\ last.response.testExecution.ID # ""
          /\ last.response.testExecution.Key # ""

\* the requests that go through the backend client
ClientOps == {"getTestCases", "createTestCase", "createTestExecution",
              "getTestExecution"}

\* the error the failed outbound call of the request served last gives rise
\* to is the innermost error of the details of the response
CarriesUnderlyingMessage ==
    LET d == last.response.details
        e == d[Len(d)]
    IN  /\ Len(d) > 0
        /\ IF Len(last.exchange) = 0 THEN e.msg = "failed to create request"
           ELSE IF Answer.kind = "transportErr" THEN e.msg = "failed to make request"
           ELSE IF Answer.body.kind = "unreadable"
                THEN e.msg = "failed to read response body"
           ELSE IF Answer.status >= 400
                THEN /\ e.code = Answer.status
                     /\ e.detail = IF Answer.body.kind = "json"
                                   THEN Field(Answer.body.val, "errorMessages", <<>>)
                                   ELSE <<Answer.body.raw>>
           ELSE e.msg = "failed to unmarshal response"

\* the one failure that is masked: a failed response to ListTestCases under
\* demo credentials
MaskedByDemo ==
    /\ last.op = "getTestCases"
    /\ DemoConfigured
    /\ Len(last.exchange) = 1
    /\ Answer.kind = "response"

\* C12 as stated: every client operation issues at most one outbound request,
\* and every failure of it ends in a 500 carrying the underlying message
C12_EveryFailureIsAnError ==
    (last.op \in ClientOps)
        => /\ OutboundCalls <= 1
           /\ Len(last.exchange) <= 1
           /\ (OutboundCalls = 1 /\ CallFailed) =>
                 (last.status = 500 /\ CarriesUnderlyingMessage)

\* C12 amended: every client operation issues at most one outbound request;
\* a failure of it ends in a 500 carrying the underlying message, except a
\* failed response to ListTestCases under demo credentials, which is
\* answered with the canned records
C12_NoRetry ==
    (last.op \in ClientOps)
        => /\ OutboundCalls <= 1
           /\ Len(last.exchange) <= 1
           /\ (OutboundCalls = 1 /\ CallFailed) =>
                 IF MaskedByDemo
                 THEN ReturnedCanned
                 ELSE last.status = 500 /\ CarriesUnderlyingMessage

C12_Witness ==
    /\ last.op = "getTestExecution" /\ ~DemoConfigured
    /\ OutboundCalls = 1 /\ Len(last.exchange) = 1
    /\ Answer.status = 400
    /\ last.status = 500
    /\ last.response.details = <<[msg |-> "Jira API error", code |-> 400,
                                  detail |-> <<"Issue does not exist">>]>>

\* the non-empty ids and keys of the entities of the response served last
ResponseIds ==
    (IF last.op = "getTestCases" /\ last.status = 200
     THEN UNION {{last.response.testCases.elems[i].ID,
                  last.response.testCases.elems[i].Key} :
                    i \in DOMAIN last.response.testCases.elems}
     ELSE IF last.op = "createTestCase" /\ last.status = 201
     THEN {last.response.testCase.ID, last.response.testCase.Key}
     ELSE IF last.op = "createTestExecution" /\ last.status = 201
     THEN {last.response.testExecution.ID, last.response.testExecution.Key}
     ELSE IF last.op = "getTestExecution" /\ last.status = 200
     THEN {last.response.testExecution.ID, last.response.testExecution.Key}
     ELSE IF last.op = "getTestCase"
     THEN {last.response.testCase.id, last.response.testCase.key}
     ELSE IF last.op = "getTestExecutions"
     THEN UNION {{last.response.testExecutions[i].id,
                  last.response.testExecutions[i].key} :
                    i \in DOMAIN last.response.testExecutions}
     ELSE {}) \ {""}

\* the ids and keys of the backend's answer to the request served last
AnswerIds ==
    IF Len(last.exchange) = 1 /\ Answer.kind = "response" /\ Answer.body.kind = "json"
    THEN IF last.op = "getTestCases"
         THEN UNION {{Field(AnswerIssues[i], "id", ""),
                      Field(AnswerIssues[i], "key", "")} :
                        i \in DOMAIN AnswerIssues}
         ELSE {Field(Answer.body.val, "id", ""), Field(Answer.body.val, "key", "")}
    ELSE {}

\* C14 as stated: an id or key that comes neither from the backend's answer
\* nor from the request is met only under demo credentials, where it is a
\* fixed placeholder
C14_OnlyDemoProducesIds ==
    IF DemoConfigured
    THEN ResponseIds \subseteq
            (AnswerIds \cup {last.key}
                \cup {"10001", "10002", "10003", "10004", "10005", "10006",
                      "TEST-1", "TEST-2", "TEST-3", "TEST-4", "EXEC-1", "EXEC-2"})
    ELSE ResponseIds \subseteq (AnswerIds \cup {last.key})

\* C14 amended: in the client, under other than demo credentials, every
\* non-empty id and key of a returned entity is one of the backend's answer;
\* under demo credentials the client's own ids and keys are fixed
\* placeholders, except the key of GetTestExecution, which is the requested
\* key; getTestCase and getTestExecutions answer with canned ids and keys,
\* getTestCase with the requested key, whatever the credentials
C14_IdentifierOrigin ==
    /\ (last.op \in ClientOps /\ ~DemoConfigured) => ResponseIds \subseteq AnswerIds
    /\ (last.op = "getTestCases" /\ DemoConfigured) =>
          \/ ResponseIds \subseteq AnswerIds
          \/ ReturnedCanned /\ ResponseIds = {"10001", "10002", "10003",
                                              "TEST-1", "TEST-2", "TEST-3"}
    /\ (last.op = "createTestCase" /\ DemoConfigured /\ last.status = 201) =>
          ResponseIds = {"10004", "TEST-4"}
    /\ (last.op = "createTestExecution" /\ DemoConfigured /\ last.status = 201) =>
          ResponseIds = {"10005", "EXEC-1"}
    /\ (last.op = "getTestExecution" /\ DemoConfigured) =>
          ResponseIds = {"10005", last.key}
    /\ last.op = "getTestCase" => ResponseIds = {"10001", last.key}
    /\ last.op = "getTestExecutions" =>
          ResponseIds = {"10005", "EXEC-1", "10006", "EXEC-2"}

C14_Witness ==
    /\ last.op = "createTestExecution" /\ ~DemoConfigured /\ last.status = 201
    /\ Field(last.body.json, "id", "") = "7"
    /\ Field(last.body.json, "key", "") = "OLD-7"
    /\ ResponseIds = {"10100", "PROJ-1"}

\* C18: the creation payload of a test execution carries only summary,
\* description, issue type "Test Execution" and project key, and a
\* GetTestExecution under other than demo credentials rebuilds only id, key,
\* summary, description and status, so that testCases, environment and
\* executionStatus come back empty
C18_ExecutionFieldsNotPersisted ==
    /\ (last.op = "createTestExecution" /\ Len(last.exchange) = 1) =>
          /\ DOMAIN SentFields \subseteq
                {"summary", "description", "issuetype", "project"}
          /\ SentFields["summary"] = InputSummary
          /\ Field(SentFields, "description", "") =
                Field(last.body.json, "description", "")
          /\ SentFields["issuetype"] = [name |-> "Test Execution"]
          /\ SentFields["project"] = [key |-> config.JiraProjectKey]
    /\ (last.op = "getTestExecution" /\ ~DemoConfigured /\ last.status = 200) =>
          /\ last.response.testExecution =
                [ZeroTestExecution EXCEPT
                    !.ID = Field(Answer.body.val, "id", ""),
                    !.Key = Field(Answer.body.val, "key", ""),
                    !.Summary = last.response.testExecution.Summary,
                    !.Description = last.response.testExecution.Description,
                    !.Status = last.response.testExecution.Status]
          /\ Len(last.response.testExecution.TestCases.elems) = 0
          /\ last.response.testExecution.Environment = ""
          /\ last.response.testExecution.ExecutionStatus = ""

(***************************************************************************)
(* C17                                                                     *)
(***************************************************************************)
\* what the handler of the request on the goroutine s answers, given the
\* request's own input, the backend's answer to its own call and a clock
OwnRun(s, t) ==
    api(inflight[s].op, inflight[s].body, inflight[s].key, inflight[s].answer, t)

Independent(s) ==
    inflight[s].pc # "idle" =>
        \A run \in {OwnRun(s, inflight[s].at)} :
            /\ inflight[s].sent = run.sent
            /\ inflight[s].pc = "done" =>
                  /\ inflight[s].status = run.status
                  /\ inflight[s].response = run.body

SameRequest(s1, s2) ==
    /\ inflight[s1].op = inflight[s2].op
    /\ inflight[s1].body = inflight[s2].body
    /\ inflight[s1].key = inflight[s2].key
    /\ inflight[s1].answer = inflight[s2].answer

ResponsesObtained ==
    {i \in DOMAIN last.exchange : last.exchange[i].answer.kind = "response"}

\* the response obtained is read and then closed, after the call that
\* obtained it and with no second call in between
ClosedAfter(do) ==
    \E r \in Positions("ReadAll"), c \in Positions("Close") :
        /\ do < r
        /\ r < c
        /\ \A d \in Positions("Do") : ~(do < d /\ d < c)

\* C21: in the calls of every request served, each backend response obtained
\* by the client operation is closed exactly once before the operation
\* returns, whatever the path (success, status of 400 or above, unreadable
\* body, undecodable body, canned records after a failure under demo
\* credentials), and nothing is closed when no response was obtained
C21_BodyClosedOnce ==
    /\ Cardinality(Positions("Close")) = Cardinality(ResponsesObtained)
    /\ Cardinality(ResponsesObtained) <= Cardinality(Positions("Do"))
    /\ ResponsesObtained # {} => \E do \in Positions("Do") : ClosedAfter(do)

\* ListTestCases under demo credentials obtained a failed response, closed
\* it once and answered with the canned records
C21_Witness ==
    /\ last.op = "getTestCases"
    /\ DemoConfigured
    /\ ResponsesObtained = {1}
    /\ \/ last.exchange[1].answer.status >= 400
       \/ last.exchange[1].answer.body.kind \in {"unreadable", "garbage"}
    /\ last.status = 200
    /\ Cardinality(Positions("Close")) = 1

====
